---- MODULE Spec2Model ----
(***************************************************************************)
(* Model of main.py: the per-letter crawl (extract_letter_entries), the    *)
(* merge and write of a letter's output file (download_letter_entries) and *)
(* the thread pool that runs one task per letter (download_entries).       *)
(*                                                                         *)
(* Text is modelled character by character: an entry, a line and a file's  *)
(* content are sequences of one-character strings, so that join, readlines *)
(* and strip are computed as Python computes them.                         *)
(***************************************************************************)
EXTENDS Integers, Sequences, FiniteSets, TLC

\* ------------------------------------------------------------------ bounds
MaxLetters == 2       \* longest letters list handed to download_entries
MaxWorkers == 2       \* largest --max-workers
MaxPages == 2         \* longest pagination chain of one letter
MaxPageEntries == 1   \* most <li> items on one page
MaxPriorLines == 2    \* most lines of an output file left by an earlier run
MaxFresh == 2         \* most entries of a crawl whose merge is repeated
MaxMerges == 2        \* most merges of the same entries into one file

\* --------------------------------------------------------------- constants
MAX_ATTEMPTS == 10
DELAY == 10
OK == 200             \* the status code the crawl accepts

\* ------------------------------------------------------------------- text
NL == "\n"
Whitespace == {" ", NL}

\* Code point of a character (Python compares str by code point).
Ord(c) ==
    CASE c = NL -> 10
      [] c = " " -> 32
      [] c = "A" -> 65
      [] c = "B" -> 66
      [] c = "a" -> 97
      [] c = "b" -> 98

Lower(c) ==
    CASE c = "A" -> "a"
      [] c = "B" -> "b"
      [] OTHER -> c

\* str.casefold
casefold(s) == [k \in 1..Len(s) |-> Lower(s[k])]

\* Python's s < t on str: lexicographic by code point, a proper prefix first.
RECURSIVE StrLess(_, _)
StrLess(s, t) ==
    IF t = <<>> THEN FALSE
    ELSE IF s = <<>> THEN TRUE
    ELSE IF Ord(Head(s)) # Ord(Head(t)) THEN Ord(Head(s)) < Ord(Head(t))
    ELSE StrLess(Tail(s), Tail(t))

\* key(s) <= key(t) for key=str.casefold
KeyLeq(s, t) == ~StrLess(casefold(t), casefold(s))

RECURSIVE lstrip(_)
lstrip(s) ==
    IF s # <<>> /\ Head(s) \in Whitespace THEN lstrip(Tail(s)) ELSE s

RECURSIVE rstrip(_)
rstrip(s) ==
    IF s # <<>> /\ s[Len(s)] \in Whitespace
    THEN rstrip(SubSeq(s, 1, Len(s) - 1))
    ELSE s

\* str.strip()
strip(s) == rstrip(lstrip(s))

\* sep.join(xs)
RECURSIVE join(_, _)
join(sep, xs) ==
    IF xs = <<>> THEN <<>>
    ELSE IF Len(xs) = 1 THEN xs[1]
    ELSE xs[1] \o <<sep>> \o join(sep, Tail(xs))

\* f.readlines(): the lines of a text, each with its terminating newline;
\* a last piece without newline is a line when it is not empty.
RECURSIVE readlines(_, _)
readlines(text, cur) ==
    IF text = <<>> THEN (IF cur = <<>> THEN <<>> ELSE <<cur>>)
    ELSE IF Head(text) = NL
         THEN <<cur \o <<NL>>>> \o readlines(Tail(text), <<>>)
         ELSE readlines(Tail(text), cur \o <<Head(text)>>)

ToSet(xs) == {xs[k] : k \in 1..Len(xs)}

\* sorted(S, key=str.casefold) of a set S: list.sort is stable and a set is
\* iterated in hash order, so entries of equal key come out in any order.
sorted(S) ==
    {p \in [1..Cardinality(S) -> S] :
        /\ \A a, b \in 1..Cardinality(S) : a # b => p[a] # p[b]
        /\ \A k \in 1..(Cardinality(S) - 1) : KeyLeq(p[k], p[k + 1])}


\* range(n) of small sequences over a set
SeqUpTo(S, n) == UNION {[1..m -> S] : m \in 0..n}

\* ------------------------------------------------------------------ inputs
Letters == {"A", "B"}
LetterLists == SeqUpTo(Letters, MaxLetters)

\* --out: "data/{0}.data" (the default), or a name without the slot
Templates == {<<"data/", "{0}", ".data">>, <<"out.data">>}

\* file.format(letter): every {0} becomes the letter
Format(template, letter) ==
    [k \in 1..Len(template) |->
        IF template[k] = "{0}" THEN letter ELSE template[k]]

\* response.getcode(): NoRedirection hands every status to the caller
Codes == {200, 302, 503}

\* texts an <a> of the word list can carry
Entries == {<<"a">>, <<"A">>, <<"B">>, <<" ", "a">>}

\* a fetched page: the text of each <li><a>, empty when the anchor has no
\* string, and whether it has an <a rel="next">
Htmls(words) ==
    [items : SeqUpTo(words \cup {<<>>}, MaxPageEntries), next : BOOLEAN]

\* -------------------------------------------------------------------- state
VARIABLES
    letters,      \* download_entries: the letters list
    file,         \* the output file name template
    remove_dead,  \* --remove-dead
    max_workers,  \* --max-workers
    vocab,        \* environment: the entry texts the site serves
    disk0,        \* environment: the files when download_entries is called
    disk,         \* the file system: path -> content, for the files that exist
    submitted,    \* number of futures submitted to the executor
    returned,     \* download_entries has returned
    pc,           \* per task: where its thread stands
    url,          \* extract_letter_entries: url (page number, None = 0)
    attempt,      \* extract_letter_entries: attempt
    entries,      \* the pages' entries yielded so far, chained
    all_data,     \* download_letter_entries: all_data
    delay,        \* seconds of the time.sleep in progress, else 0
    progress,     \* observer: last message per letter
    nfetch,       \* history: urlopen calls on the current page
    okPages,      \* history: urls that answered 200, in order
    stop,         \* history: why the crawl loop ended
    prior,        \* history: the file content the merge found, if any
    merged        \* history: the file after each earlier merge of the entries

vars == <<letters, file, remove_dead, max_workers, vocab, disk, submitted,
          returned, pc, url, attempt, entries, all_data, delay, progress,
          nfetch, okPages, stop, prior, disk0, merged>>

config == <<letters, file, remove_dead, max_workers, vocab, disk0, merged>>

Tasks == 1..Len(letters)

None == 0

\* API.format(letter): the letter's first page
IndexUrl == 1

PathOf(i) == Format(file, letters[i])

\* f.write("\n".join(all_data) + "\n")
WriteData(data) == join(NL, data) \o <<NL>>

\* [line.strip() for line in f.readlines()]
ReadOldData(content) ==
    [k \in 1..Len(readlines(content, <<>>)) |->
        strip(readlines(content, <<>>)[k])]

\* ------------------------------------------------- the code's expressions
\* extract_page_entries: the anchors' strings, the falsy ones skipped
extract_page_entries(html) == SelectSeq(html.items, LAMBDA a : a # <<>>)

\* get_next returning a url although the page has no rel="next" link
get_next_AlwaysLink(html, u) == u + 1

\* get_next: the next page's url when the page has a rel="next" link
get_next(html, u) == IF html.next THEN u + 1 ELSE None

\* while url:
LoopTest(u) == u # None

\* the ceiling test written with >=
CeilingExceeded_OffByOne(a) == a >= MAX_ATTEMPTS

\* if attempt > MAX_ATTEMPTS: break
CeilingExceeded(a) == a > MAX_ATTEMPTS

\* time.sleep(DELAY * attempt)
Backoff(a) == DELAY * a

\* a merge that sorts and dedupes the entries also when there is no file
AllData_SortsWhenAbsent(dead, found, fresh) ==
    IF dead
    THEN {fresh}
    ELSE IF found = {}
         THEN sorted(ToSet(fresh))
         ELSE UNION {sorted(ToSet(ReadOldData(old)) \cup ToSet(fresh)) :
                        old \in found}

\* all_data of download_letter_entries: the values it can take for the file
\* content found (a set: empty when there is no file) and the fresh entries
AllData(dead, found, fresh) ==
    IF dead \/ found = {}
    THEN {fresh}
    ELSE UNION {sorted(ToSet(ReadOldData(old)) \cup ToSet(fresh)) : old \in found}

\* open(file, "r"): what is there to read
Found(path) == IF path \in DOMAIN disk THEN {disk[path]} ELSE {}

\* open(file, "w"): the file exists and is empty
Truncated(path) == [p \in DOMAIN disk \cup {path} |-> IF p = path THEN <<>> ELSE disk[p]]

\* write and close of a handle at offset 0: the bytes written replace the
\* file's first bytes; what lies beyond them stays
Overwrite(old, data) == data \o SubSeq(old, Len(data) + 1, Len(old))

\* a call of download_letter_entries is in progress on a worker thread
Running(i) == pc[i] \notin {"pending", "done", "raised"}

\* a pool that starts one thread more than max_workers
WorkerFree_OneMore == Cardinality({j \in Tasks : Running(j)}) <= max_workers

\* a worker thread of the pool is free to take the next work item
WorkerFree == Cardinality({j \in Tasks : Running(j)}) < max_workers

\* a future is done: its call returned or raised
FutureDone(i) == pc[i] \in {"done", "raised"}

\* returning at the first completed future, without the executor's wait
AllCompleted_FirstOnly == \E i \in Tasks : FutureDone(i)

\* a wait that ends only when every call has returned normally
AllCompleted_OnlyReturned == \A i \in Tasks : pc[i] = "done"

\* as_completed(futures) is exhausted and the executor has shut down
AllCompleted == \A i \in Tasks : FutureDone(i)

\* ------------------------------------------------------------------ actions
\* download_entries: executor.submit for the next letter
Submit ==
    /\ ~returned
    /\ submitted < Len(letters)
    /\ submitted' = submitted + 1
    /\ UNCHANGED <<config, disk, returned, pc, url, attempt, entries, all_data,
                   delay, progress, nfetch, okPages, stop, prior>>

\* download_entries: the as_completed loop ends, the with block exits
Return ==
    /\ ~returned
    /\ submitted = Len(letters)
    /\ AllCompleted
    /\ returned' = TRUE
    /\ UNCHANGED <<config, disk, submitted, pc, url, attempt, entries, all_data,
                   delay, progress, nfetch, okPages, stop, prior>>

\* a worker takes the oldest queued work item and calls
\* download_letter_entries, which enters extract_letter_entries
Start(i) ==
    /\ pc[i] = "pending"
    /\ i <= submitted
    /\ \A j \in 1..(i - 1) : pc[j] # "pending"
    /\ WorkerFree
    /\ pc' = [pc EXCEPT ![i] = "loop"]
    /\ url' = [url EXCEPT ![i] = IndexUrl]
    /\ attempt' = [attempt EXCEPT ![i] = 0]
    /\ UNCHANGED <<config, disk, submitted, returned, entries, all_data, delay,
                   progress, nfetch, okPages, stop, prior>>

\* a loop that reports the letter's first url before every fetch
Request_StaleUrl(i) ==
    /\ pc[i] \in {"loop", "sleep"}
    /\ LoopTest(url[i])
    /\ progress' = [progress EXCEPT ![letters[i]] = <<"url", IndexUrl>>]
    /\ nfetch' = [nfetch EXCEPT ![i] = @ + 1]
    /\ pc' = [pc EXCEPT ![i] = "fetching"]
    /\ delay' = [delay EXCEPT ![i] = 0]
    /\ UNCHANGED <<config, disk, submitted, returned, url, attempt, entries,
                   all_data, okPages, stop, prior>>

\* top of the while loop, entered from the call, from a 200 or when
\* time.sleep returns: progress_callback(letter, url), then urlopen(url)
Request(i) ==
    /\ pc[i] \in {"loop", "sleep"}
    /\ LoopTest(url[i])
    /\ progress' = [progress EXCEPT ![letters[i]] = <<"url", url[i]>>]
    /\ nfetch' = [nfetch EXCEPT ![i] = @ + 1]
    /\ pc' = [pc EXCEPT ![i] = "fetching"]
    /\ delay' = [delay EXCEPT ![i] = 0]
    /\ UNCHANGED <<config, disk, submitted, returned, url, attempt, entries,
                   all_data, okPages, stop, prior>>

\* urlopen raises (transport failure: "urlerror"), or the page has no word
\* list and extract_page_entries raises ("nolist"): the exception is caught
\* nowhere in the task and leaves download_letter_entries
Raise(i) ==
    /\ pc[i] = "fetching"
    /\ pc' = [pc EXCEPT ![i] = "raised"]
    /\ \E why \in {"urlerror", "nolist"} : stop' = [stop EXCEPT ![i] = why]
    /\ UNCHANGED <<config, disk, submitted, returned, url, attempt, entries,
                   all_data, delay, progress, nfetch, okPages, prior>>

\* a 200 that leaves attempt as the failures before it left it
Response200_KeepAttempt(i) ==
    /\ pc[i] = "fetching"
    /\ \E html \in Htmls(vocab) :
        /\ html.next => url[i] < MaxPages
        /\ entries' = [entries EXCEPT ![i] = @ \o extract_page_entries(html)]
        /\ url' = [url EXCEPT ![i] = get_next(html, url[i])]
        /\ pc' = [pc EXCEPT ![i] =
                    IF LoopTest(get_next(html, url[i])) THEN "loop" ELSE "merge"]
        /\ stop' = [stop EXCEPT ![i] = IF html.next THEN @ ELSE "nolink"]
    /\ okPages' = [okPages EXCEPT ![i] = Append(@, url[i])]
    /\ nfetch' = [nfetch EXCEPT ![i] = 0]
    /\ UNCHANGED <<config, disk, submitted, returned, all_data, delay, progress,
                   prior, attempt>>

\* code == 200: yield the page's entries, follow the next link
Response200(i) ==
    /\ pc[i] = "fetching"
    /\ \E html \in Htmls(vocab) :
        /\ html.next => url[i] < MaxPages
        /\ entries' = [entries EXCEPT ![i] = @ \o extract_page_entries(html)]
        /\ url' = [url EXCEPT ![i] = get_next(html, url[i])]
        /\ pc' = [pc EXCEPT ![i] =
                    IF LoopTest(get_next(html, url[i])) THEN "loop" ELSE "merge"]
        /\ stop' = [stop EXCEPT ![i] = IF html.next THEN @ ELSE "nolink"]
    /\ attempt' = [attempt EXCEPT ![i] = 0]
    /\ okPages' = [okPages EXCEPT ![i] = Append(@, url[i])]
    /\ nfetch' = [nfetch EXCEPT ![i] = 0]
    /\ UNCHANGED <<config, disk, submitted, returned, all_data, delay, progress,
                   prior>>

\* a failure past the ceiling raised out of the task instead of break
ResponseNon200_RaiseAtCeiling(i) ==
    /\ pc[i] = "fetching"
    /\ \E code \in Codes : code # OK
    /\ attempt' = [attempt EXCEPT ![i] = @ + 1]
    /\ IF CeilingExceeded(attempt[i] + 1)
       THEN /\ pc' = [pc EXCEPT ![i] = "raised"]
            /\ stop' = [stop EXCEPT ![i] = "ceiling"]
            /\ delay' = delay
       ELSE /\ pc' = [pc EXCEPT ![i] = "sleep"]
            /\ delay' = [delay EXCEPT ![i] = Backoff(attempt[i] + 1)]
            /\ stop' = stop
    /\ UNCHANGED <<config, disk, submitted, returned, url, entries, all_data,
                   progress, nfetch, okPages, prior>>

\* a failure that moves on to the following page instead of retrying
ResponseNon200_SkipPage(i) ==
    /\ pc[i] = "fetching"
    /\ \E code \in Codes : code # OK
    /\ attempt' = [attempt EXCEPT ![i] = @ + 1]
    /\ url' = [url EXCEPT ![i] = @ + 1]
    /\ IF CeilingExceeded(attempt[i] + 1)
       THEN /\ pc' = [pc EXCEPT ![i] = "merge"]
            /\ stop' = [stop EXCEPT ![i] = "ceiling"]
            /\ delay' = delay
       ELSE /\ pc' = [pc EXCEPT ![i] = "sleep"]
            /\ delay' = [delay EXCEPT ![i] = Backoff(attempt[i] + 1)]
            /\ stop' = stop
    /\ UNCHANGED <<config, disk, submitted, returned, entries, all_data,
                   progress, nfetch, okPages, prior>>

\* code != 200: count the attempt, give up past the ceiling, else sleep
ResponseNon200(i) ==
    /\ pc[i] = "fetching"
    /\ \E code \in Codes : code # OK
    /\ attempt' = [attempt EXCEPT ![i] = @ + 1]
    /\ IF CeilingExceeded(attempt[i] + 1)
       THEN /\ pc' = [pc EXCEPT ![i] = "merge"]
            /\ stop' = [stop EXCEPT ![i] = "ceiling"]
            /\ delay' = delay
       ELSE /\ pc' = [pc EXCEPT ![i] = "sleep"]
            /\ delay' = [delay EXCEPT ![i] = Backoff(attempt[i] + 1)]
            /\ stop' = stop
    /\ UNCHANGED <<config, disk, submitted, returned, url, entries, all_data,
                   progress, nfetch, okPages, prior>>

\* download_letter_entries: all_data from remove_dead, the file and entries
Merge(i) ==
    /\ pc[i] = "merge"
    /\ \E data \in AllData(remove_dead, Found(PathOf(i)), entries[i]) :
        all_data' = [all_data EXCEPT ![i] = data]
    /\ prior' = [prior EXCEPT ![i] = Found(PathOf(i))]
    /\ pc' = [pc EXCEPT ![i] = "open_w"]
    /\ UNCHANGED <<config, disk, submitted, returned, url, attempt, entries,
                   delay, progress, nfetch, okPages, stop>>

\* open(file, "w")
OpenWrite(i) ==
    /\ pc[i] = "open_w"
    /\ disk' = Truncated(PathOf(i))
    /\ pc' = [pc EXCEPT ![i] = "write"]
    /\ UNCHANGED <<config, submitted, returned, url, attempt, entries, all_data,
                   delay, progress, nfetch, okPages, stop, prior>>

\* f.write(...) and the close at the end of the with block
Write(i) ==
    /\ pc[i] = "write"
    /\ disk' = [disk EXCEPT ![PathOf(i)] = Overwrite(@, WriteData(all_data[i]))]
    /\ pc' = [pc EXCEPT ![i] = "written"]
    /\ UNCHANGED <<config, submitted, returned, url, attempt, entries, all_data,
                   delay, progress, nfetch, okPages, stop, prior>>

\* progress_callback(letter, "Done"); the call returns
Done(i) ==
    /\ pc[i] = "written"
    /\ progress' = [progress EXCEPT ![letters[i]] = <<"Done">>]
    /\ pc' = [pc EXCEPT ![i] = "done"]
    /\ UNCHANGED <<config, disk, submitted, returned, url, attempt, entries,
                   all_data, delay, nfetch, okPages, stop, prior>>

Next ==
    \/ Submit
    \/ Return
    \/ \E i \in Tasks : Start(i)
    \/ \E i \in Tasks : Request(i)
    \/ \E i \in Tasks : Raise(i)
    \/ \E i \in Tasks : Response200(i)
    \/ \E i \in Tasks : ResponseNon200(i)
    \/ \E i \in Tasks : Merge(i)
    \/ \E i \in Tasks : OpenWrite(i)
    \/ \E i \in Tasks : Write(i)
    \/ \E i \in Tasks : Done(i)

\* -------------------------------------------------------------------- Init
\* the state of the tasks when download_entries is called
Fresh ==
    /\ submitted = 0
    /\ returned = FALSE
    /\ pc = [i \in Tasks |-> "pending"]
    /\ url = [i \in Tasks |-> None]
    /\ attempt = [i \in Tasks |-> 0]
    /\ entries = [i \in Tasks |-> <<>>]
    /\ all_data = [i \in Tasks |-> <<>>]
    /\ delay = [i \in Tasks |-> 0]
    /\ progress = [l \in ToSet(letters) |-> <<"Pending">>]
    /\ nfetch = [i \in Tasks |-> 0]
    /\ okPages = [i \in Tasks |-> <<>>]
    /\ stop = [i \in Tasks |-> ""]
    /\ prior = [i \in Tasks |-> {}]
    /\ merged = <<>>
    /\ disk0 = disk

\* output files an earlier run can have left: entries, one per line
Priors(words, n) == {WriteData(data) : data \in SeqUpTo(words, n)}

\* the files of the run's letters, each absent or left by an earlier run
Disks(paths, words, n) ==
    UNION {[some -> Priors(words, n)] : some \in SUBSET paths}

RunPaths == {Format(file, letters[i]) : i \in Tasks}

\* a run over several letters; the site serves one word
Init ==
    /\ letters \in LetterLists
    /\ file \in Templates
    /\ remove_dead \in BOOLEAN
    /\ max_workers \in 1..MaxWorkers
    /\ vocab = {<<"a">>}
    /\ disk \in Disks(RunPaths, vocab, 1)
    /\ Fresh

Spec == Init /\ [][Next]_vars

\* a run over one letter; the site serves two words whose order by code
\* point and by case-folded key differ
InitLetter ==
    /\ letters \in {<<l>> : l \in Letters}
    /\ file \in Templates
    /\ remove_dead \in BOOLEAN
    /\ max_workers = 1
    /\ vocab = {<<"a">>, <<"B">>}
    /\ disk \in Disks(RunPaths, vocab, MaxPriorLines)
    /\ Fresh

SpecLetter == InitLetter /\ [][Next]_vars

\* the merge of download_letter_entries applied again to the same entries:
\* a later call whose crawl yielded what the earlier one did
Again(i) ==
    /\ pc[i] = "done"
    /\ Len(merged) < MaxMerges - 1
    /\ merged' = Append(merged, disk[PathOf(i)])
    /\ pc' = [pc EXCEPT ![i] = "merge"]
    /\ UNCHANGED <<letters, file, remove_dead, max_workers, vocab, disk0, disk,
                   submitted, returned, url, attempt, entries, all_data, delay,
                   progress, nfetch, okPages, stop, prior>>

NextMerge ==
    \/ \E i \in Tasks : Merge(i)
    \/ \E i \in Tasks : OpenWrite(i)
    \/ \E i \in Tasks : Write(i)
    \/ \E i \in Tasks : Done(i)
    \/ \E i \in Tasks : Again(i)

\* one letter whose crawl has ended on its first page with the entries
\* drawn here; the merge is about to start
InitMerge ==
    /\ letters \in {<<l>> : l \in Letters}
    /\ file \in Templates
    /\ remove_dead \in BOOLEAN
    /\ max_workers = 1
    /\ vocab = Entries
    /\ disk \in Disks(RunPaths, vocab, MaxPriorLines)
    /\ disk0 = disk
    /\ submitted = 1
    /\ returned = FALSE
    /\ pc = [i \in Tasks |-> "merge"]
    /\ url = [i \in Tasks |-> None]
    /\ attempt = [i \in Tasks |-> 0]
    /\ entries \in [Tasks -> SeqUpTo(vocab, MaxFresh)]
    /\ all_data = [i \in Tasks |-> <<>>]
    /\ delay = [i \in Tasks |-> 0]
    /\ progress = [l \in ToSet(letters) |-> <<"url", IndexUrl>>]
    /\ nfetch = [i \in Tasks |-> 0]
    /\ okPages = [i \in Tasks |-> <<IndexUrl>>]
    /\ stop = [i \in Tasks |-> "nolink"]
    /\ prior = [i \in Tasks |-> {}]
    /\ merged = <<>>

SpecMerge == InitMerge /\ [][NextMerge]_vars

\* a step of the worker thread that runs task i
TaskStep(i) ==
    /\ i \in Tasks
    /\ \/ Start(i)
       \/ Request(i)
       \/ Raise(i)
       \/ Response200(i)
       \/ ResponseNon200(i)
       \/ Merge(i)
       \/ OpenWrite(i)
       \/ Write(i)
       \/ Done(i)

\* a run over several letters with no output file yet
InitFair ==
    /\ letters \in LetterLists
    /\ file = <<"data/", "{0}", ".data">>
    /\ remove_dead \in BOOLEAN
    /\ max_workers \in 1..MaxWorkers
    /\ vocab = {<<"a">>}
    /\ disk = << >>
    /\ Fresh

\* the threads are scheduled fairly: the main thread and every worker that
\* can take a step eventually takes one; every urlopen returns or raises
\* and every time.sleep ends
SpecFair ==
    /\ InitFair
    /\ [][Next]_vars
    /\ WF_vars(Submit \/ Return)
    /\ \A i \in 1..MaxLetters : WF_vars(TaskStep(i))

\* ------------------------------------------------------------------ claims
\* task i has written and closed its output file
Wrote(i) == pc[i] \in {"written", "done"}

\* the lines of a text without their newline
Lines(content) ==
    [k \in 1..Len(readlines(content, <<>>)) |->
        SelectSeq(readlines(content, <<>>)[k], LAMBDA c : c # NL)]

SortedByKey(xs) == \A k \in 1..(Len(xs) - 1) : KeyLeq(xs[k], xs[k + 1])
NoDuplicate(xs) == \A a, b \in 1..Len(xs) : a # b => xs[a] # xs[b]

\* C1: once download_letter_entries has written a letter's file, under
\* either policy and with or without a prior file, the file's lines are
\* sorted by case-folded key and no line occurs twice.
C1_SortedNoDuplicate ==
    \A i \in Tasks :
        Wrote(i) =>
            /\ SortedByKey(Lines(disk[PathOf(i)]))
            /\ NoDuplicate(Lines(disk[PathOf(i)]))

\* C2: under Union policy, merging the entries a second time into the file
\* the first merge wrote leaves the file as the first merge left it.
C2_UnionIdempotent ==
    \A i \in Tasks :
        (~remove_dead /\ Wrote(i) /\ Len(merged) = 1) =>
            disk[PathOf(i)] = merged[1]

\* the entries of a file are its lines, read with or without strip()
SameEntries(content, S) ==
    \/ ToSet(Lines(content)) = S
    \/ ToSet(ReadOldData(content)) = S

\* C3: under Replace policy the written file is exactly the text of the
\* entries scraped in this run, and its set of entries is the set scraped.
C3_ReplaceWritesFresh ==
    \A i \in Tasks :
        (remove_dead /\ Wrote(i)) =>
            /\ disk[PathOf(i)] = WriteData(entries[i])
            /\ SameEntries(disk[PathOf(i)], ToSet(entries[i]))

\* C4: under Union policy with a prior file, the set of entries of the
\* written file is the union of the prior file's entries and the entries
\* scraped in this run, the files read either way.
C4_UnionKeepsPrior ==
    \A i \in Tasks :
        (~remove_dead /\ Wrote(i) /\ prior[i] # {}) =>
            \A old \in prior[i] :
                \/ ToSet(Lines(disk[PathOf(i)]))
                    = ToSet(Lines(old)) \cup ToSet(entries[i])
                \/ ToSet(ReadOldData(disk[PathOf(i)]))
                    = ToSet(ReadOldData(old)) \cup ToSet(entries[i])

\* task i is in the crawl loop of extract_letter_entries
Crawling(i) == pc[i] \in {"loop", "fetching", "sleep"}

\* C5: a page is never fetched more than MAX_ATTEMPTS + 1 times in a row
\* without a 200, and when the crawl gives up on a page that page has been
\* fetched exactly MAX_ATTEMPTS + 1 times since the last 200 (or the start),
\* after which the task fetches no more.
C5_RetryCeiling ==
    \A i \in Tasks :
        /\ nfetch[i] <= MAX_ATTEMPTS + 1
        /\ stop[i] = "ceiling" =>
            /\ nfetch[i] = MAX_ATTEMPTS + 1
            /\ ~Crawling(i)

\* C5 witness: a letter given up on a later page, after a page that answered 200
C5_Witness ==
    \E i \in Tasks : stop[i] = "ceiling" /\ Len(okPages[i]) >= 1 /\ Wrote(i)

\* C6: the number of tasks in the fetch, backoff or merge phase never
\* exceeds max_workers.
C6_AtMostKRunning ==
    Cardinality({i \in Tasks :
        pc[i] \in {"loop", "fetching", "sleep", "merge", "open_w", "write",
                   "written"}}) <= max_workers

\* C6 witness: more letters than workers, every worker busy, a letter queued
C6_Witness ==
    /\ Len(letters) > max_workers
    /\ Cardinality({i \in Tasks : pc[i] = "fetching"}) = max_workers
    /\ \E i \in Tasks : pc[i] = "pending" /\ i <= submitted

Found0(path) == IF path \in DOMAIN disk0 THEN {disk0[path]} ELSE {}

\* C7: when a letter's task has ended in failure (given up at the retry
\* ceiling, or raised), what the task of any other letter writes is decided
\* by that letter's own crawl and the file it had when the run started: it
\* is what it would write whatever the failed task did.
C7_LetterIsolation ==
    \A f, t \in Tasks :
        (/\ letters[f] # letters[t]
         /\ FutureDone(f)
         /\ stop[f] = "ceiling" \/ pc[f] = "raised"
         /\ Wrote(t)) =>
            WriteData(all_data[t]) \in
                {WriteData(data) :
                    data \in AllData(remove_dead, Found0(PathOf(t)), entries[t])}

\* C8: no two tasks of a run open the same output file for writing.
C8_ExclusiveFiles ==
    \A i, j \in Tasks :
        (/\ i # j
         /\ pc[i] \in {"write", "written", "done"}
         /\ pc[j] \in {"write", "written", "done"}) =>
            PathOf(i) # PathOf(j)

\* C9: once a page has answered 200 without a next link, the pages that
\* answered 200 are exactly pages 1..N in order, N the page without the
\* link, and the task is out of the crawl loop with no fetch made since.
C9_StopsAtLastPage ==
    \A i \in Tasks :
        stop[i] = "nolink" =>
            /\ okPages[i] = [k \in 1..Len(okPages[i]) |-> k]
            /\ url[i] = None
            /\ nfetch[i] = 0
            /\ ~Crawling(i)

\* C9 witness: a crawl of MaxPages pages with entries, ended by the last page
C9_Witness ==
    \E i \in Tasks :
        /\ stop[i] = "nolink"
        /\ Len(okPages[i]) = MaxPages
        /\ entries[i] # <<>>
        /\ pc[i] = "done"

\* C10: download_entries has returned only if every task has completed,
\* by returning or by raising.
C10_ReturnsAfterAll ==
    returned => \A i \in Tasks : pc[i] \in {"done", "raised"}

\* C10 witness: returned after one task raised and another gave up at the
\* retry ceiling and wrote its file
C10_Witness ==
    /\ returned
    /\ \E i, j \in Tasks :
        pc[i] = "raised" /\ pc[j] = "done" /\ stop[j] = "ceiling"

\* a text has no empty line
NoEmptyLine(content) ==
    \A k \in 1..Len(Lines(content)) : Lines(content)[k] # <<>>

\* C11: over the runs on a letter whose file was absent or free of empty
\* lines at the start, under either policy and whatever the crawls yield,
\* no line of the written file is empty and no merge reads an empty string
\* as a prior entry.
C11_NoEmptyEntry ==
    \A i \in Tasks :
        (\A old \in Found0(PathOf(i)) : NoEmptyLine(old)) =>
            /\ Wrote(i) => NoEmptyLine(disk[PathOf(i)])
            /\ \A old \in prior[i] : <<>> \notin ToSet(ReadOldData(old))

\* C12: a fetch that failed at transport level has not ended the task: the
\* task has counted the attempt and is backing off, retrying the same page
\* or, past the ceiling, merging.
C12_TransportFailureRetried ==
    \A i \in Tasks :
        stop[i] = "urlerror" =>
            /\ pc[i] # "raised"
            /\ attempt[i] >= 1

\* C13: when the crawl has given up at the retry ceiling on page k, pages
\* 1..k-1 are the pages that answered 200, the task goes on to the merge
\* with the entries gathered from them, all_data is what the policy makes
\* of them and of the file found, the file written is the text of all_data,
\* and the task ends with the message "Done".
C13_CeilingStillMerges ==
    \A i \in Tasks :
        stop[i] = "ceiling" =>
            /\ pc[i] \in {"merge", "open_w", "write", "written", "done"}
            /\ okPages[i] = [k \in 1..(url[i] - 1) |-> k]
            /\ pc[i] # "merge" =>
                IF remove_dead \/ prior[i] = {}
                THEN all_data[i] = entries[i]
                ELSE \A old \in prior[i] :
                        ToSet(all_data[i])
                            = ToSet(ReadOldData(old)) \cup ToSet(entries[i])
            /\ Wrote(i) => disk[PathOf(i)] = WriteData(all_data[i])
            /\ pc[i] = "done" => progress[letters[i]] = <<"Done">>

\* C13 witness: given up on page 2 with an entry of page 1 in hand, merged
\* under Union into a prior file, written, "Done" emitted
C13_Witness ==
    \E i \in Tasks :
        /\ stop[i] = "ceiling"
        /\ url[i] = 2
        /\ entries[i] # <<>>
        /\ ~remove_dead
        /\ prior[i] # {}
        /\ pc[i] = "done"
        /\ progress[letters[i]] = <<"Done">>

\* C14: a step in which a fetch fails (the attempt is counted) changes
\* neither the task's url nor its entries, the fetch after a backoff is of
\* the url that failed, and the url of a started task changes only in a
\* step that records a 200 for it.
C14_FailedFetchFrame ==
    [][\A i \in Tasks :
        /\ attempt'[i] = attempt[i] + 1 =>
            url'[i] = url[i] /\ entries'[i] = entries[i]
        /\ (pc[i] = "sleep" /\ pc'[i] = "fetching") =>
            /\ url'[i] = url[i]
            /\ progress'[letters[i]] = progress[letters[i]]
        /\ (pc[i] # "pending" /\ url'[i] # url[i]) =>
            okPages'[i] = Append(okPages[i], url[i])]_vars

\* C14 witness: page 2 fetched again after a failure, page 1's entry kept
C14_Witness ==
    \E i \in Tasks :
        /\ pc[i] = "fetching"
        /\ nfetch[i] >= 2
        /\ url[i] = 2
        /\ entries[i] # <<>>

\* C15: a task asleep after the j-th failure in a row of its current page
\* sleeps DELAY * j seconds, j in 1..MAX_ATTEMPTS; attempt is the number of
\* failures of the current page since its last 200 and is 0 after a 200.
C15_LinearBackoff ==
    \A i \in Tasks :
        /\ pc[i] = "sleep" =>
            /\ nfetch[i] \in 1..MAX_ATTEMPTS
            /\ delay[i] = DELAY * nfetch[i]
        /\ pc[i] = "loop" => attempt[i] = 0
        /\ pc[i] = "fetching" => attempt[i] = nfetch[i] - 1
        /\ pc[i] = "sleep" => attempt[i] = nfetch[i]

\* C15 witness: the longest backoff, on a page reached after a 200
C15_Witness ==
    \E i \in Tasks :
        /\ pc[i] = "sleep"
        /\ delay[i] = DELAY * MAX_ATTEMPTS
        /\ Len(okPages[i]) >= 1

\* C16: of the tasks of one letter at most one has a fetch in flight, and
\* a task fetching page N has had a 200 from each of the pages 1..N-1, in
\* that order, whatever the other tasks do.
C16_OneFetchInOrder ==
    /\ \A l \in ToSet(letters) :
        Cardinality({i \in Tasks : letters[i] = l /\ pc[i] = "fetching"}) <= 1
    /\ \A i \in Tasks :
        pc[i] = "fetching" => okPages[i] = [k \in 1..(url[i] - 1) |-> k]

\* C17: when the merge found no file, the task goes on to write, all_data
\* is the fresh entries as crawled, and the file written is their text:
\* under Union it is the very file Replace writes for the same entries.
C17_AbsentFileAsReplace ==
    \A i \in Tasks :
        (prior[i] = {} /\ pc[i] \in {"open_w", "write", "written", "done"}) =>
            /\ all_data[i] = entries[i]
            /\ Wrote(i) => disk[PathOf(i)] = WriteData(entries[i])

\* C17 witness: Union, no file, two entries out of key order, written
C17_Witness ==
    \E i \in Tasks :
        /\ ~remove_dead
        /\ prior[i] = {}
        /\ Len(entries[i]) = 2
        /\ ~SortedByKey(entries[i])
        /\ Wrote(i)

\* C18: for the task of a letter, the step that puts a fetch in flight
\* emits the event (letter, url) with the url that fetch is of; "Done" is
\* emitted only by a task whose file is written, holding the text of
\* all_data; and once "Done" is the letter's last event the task takes no
\* further step, so no second "Done" and no url event follow it.
C18_ProgressOrder ==
    [][\A i \in Tasks :
        /\ (pc[i] # "fetching" /\ pc'[i] = "fetching") =>
            /\ progress'[letters[i]] = <<"url", url[i]>>
            /\ url'[i] = url[i]
        /\ (progress[letters[i]] # <<"Done">>
                /\ progress'[letters[i]] = <<"Done">>) =>
            /\ pc[i] = "written"
            /\ disk[PathOf(i)] = WriteData(all_data[i])
            /\ disk' = disk
        /\ progress[letters[i]] = <<"Done">> =>
            /\ progress'[letters[i]] = <<"Done">>
            /\ pc'[i] = pc[i]]_vars

\* C18 witness: "Done" is the last event of a task that fetched two pages
C18_Witness ==
    \E i \in Tasks :
        /\ progress[letters[i]] = <<"Done">>
        /\ Len(okPages[i]) = 2
        /\ pc[i] = "done"

\* C19: under fair scheduling, with every fetch answered and at most
\* MaxPages pages per letter, eventually every task has left its crawl and
\* ended, by returning or by raising, and download_entries has returned,
\* for every list of letters and every max_workers >= 1.
C19_Terminates ==
    <>(returned /\ \A i \in Tasks : pc[i] \in {"done", "raised"})

\* C19 witness: more letters than workers, one crawl run to the retry
\* ceiling, download_entries returned
C19_Witness ==
    /\ returned
    /\ Len(letters) = MaxLetters
    /\ max_workers = 1
    /\ \E i \in Tasks : stop[i] = "ceiling" /\ url[i] = MaxPages

====
